---- MODULE Spec2Model ----
(***************************************************************************)
(* A model of fix_lint.py: a command-line script that reads each file      *)
(* named on the command line, applies eleven regular-expression            *)
(* substitutions in a fixed order, and rewrites the file when the text     *)
(* changed.  Text is modelled character by character as TLA+ strings; the  *)
(* file system is modelled with the failures open/read/write can raise.    *)
(***************************************************************************)
EXTENDS Integers, Sequences, FiniteSets, TLC

\* argv: the file arguments; fs: the files on disk by path; i: the argument
\* the loop is at; pc: the statement about to run; rule: the substitution
\* about to run; content, original, exc: the locals of fix_file and of the
\* handler; stdout: the lines printed; trace: the file operations and print
\* calls made so far, each with the argument it was made for.
VARIABLES argv, fs, i, pc, rule, content, original, exc, stdout, trace

vars == <<argv, fs, i, pc, rule, content, original, exc, stdout, trace>>

(***************************************************************************)
(* Characters and the regular-expression classes \w, \s and \b.            *)
(***************************************************************************)
Ch(s, k) == SubSeq(s, k, k)

WordChars ==
    { "a", "b", "c", "d", "e", "f", "g", "h", "i", "j", "k", "l", "m",
      "n", "o", "p", "q", "r", "s", "t", "u", "v", "w", "x", "y", "z",
      "A", "B", "C", "D", "E", "F", "G", "H", "I", "J", "K", "L", "M",
      "N", "O", "P", "Q", "R", "S", "T", "U", "V", "W", "X", "Y", "Z",
      "0", "1", "2", "3", "4", "5", "6", "7", "8", "9", "_" }

SpaceChars == { " ", "\t", "\n", "\r", "\f" }

IsWordAt(s, k) == k >= 1 /\ k <= Len(s) /\ Ch(s, k) \in WordChars

\* \b between the characters at k-1 and k
WordBoundary(s, k) == IsWordAt(s, k - 1) # IsWordAt(s, k)

StartsAt(s, k, lit) ==
    k + Len(lit) - 1 <= Len(s) /\ SubSeq(s, k, k + Len(lit) - 1) = lit

RECURSIVE WordRun(_, _)
\* length of the greedy \w* from k
WordRun(s, k) == IF IsWordAt(s, k) THEN 1 + WordRun(s, k + 1) ELSE 0

RECURSIVE SpaceRun(_, _)
\* length of the greedy \s* from k
SpaceRun(s, k) ==
    IF k <= Len(s) /\ Ch(s, k) \in SpaceChars THEN 1 + SpaceRun(s, k + 1) ELSE 0

(***************************************************************************)
(* The eleven substitutions of fix_file, in source order.                  *)
(***************************************************************************)
\* the catalogue with the unused rule moved ahead of the negation rules
RulesUnusedFirst ==
    << [kind |-> "lookup",   pat |-> "name",         repl |-> "[name] ??"],
       [kind |-> "lookup",   pat |-> "value",        repl |-> "[name] ??"],
       [kind |-> "unused",   pat |-> "unused",       repl |-> "_"],
       [kind |-> "negation", pat |-> "text",         repl |-> "text == null"],
       [kind |-> "negation", pat |-> "result",       repl |-> "result == null"],
       [kind |-> "negation", pat |-> "response",     repl |-> "response == null"],
       [kind |-> "negation", pat |-> "jsonData",     repl |-> "jsonData == null"],
       [kind |-> "negation", pat |-> "instance",     repl |-> "instance == null"],
       [kind |-> "negation", pat |-> "options",      repl |-> "options == null"],
       [kind |-> "emptyobj", pat |-> "if",           repl |-> "if (false)"],
       [kind |-> "literal",  pat |-> "console.log(", repl |-> "console.warn("] >>

\* the catalogue with the value lookup keeping its own index token
RulesValueKept ==
    << [kind |-> "lookup",   pat |-> "name",         repl |-> "[name] ??"],
       [kind |-> "lookup",   pat |-> "value",        repl |-> "[value] ??"],
       [kind |-> "negation", pat |-> "text",         repl |-> "text == null"],
       [kind |-> "negation", pat |-> "result",       repl |-> "result == null"],
       [kind |-> "negation", pat |-> "response",     repl |-> "response == null"],
       [kind |-> "negation", pat |-> "jsonData",     repl |-> "jsonData == null"],
       [kind |-> "negation", pat |-> "instance",     repl |-> "instance == null"],
       [kind |-> "negation", pat |-> "options",      repl |-> "options == null"],
       [kind |-> "emptyobj", pat |-> "if",           repl |-> "if (false)"],
       [kind |-> "literal",  pat |-> "console.log(", repl |-> "console.warn("],
       [kind |-> "unused",   pat |-> "unused",       repl |-> "_"] >>

Rules ==
    << [kind |-> "lookup",   pat |-> "name",         repl |-> "[name] ??"],
       [kind |-> "lookup",   pat |-> "value",        repl |-> "[name] ??"],
       [kind |-> "negation", pat |-> "text",         repl |-> "text == null"],
       [kind |-> "negation", pat |-> "result",       repl |-> "result == null"],
       [kind |-> "negation", pat |-> "response",     repl |-> "response == null"],
       [kind |-> "negation", pat |-> "jsonData",     repl |-> "jsonData == null"],
       [kind |-> "negation", pat |-> "instance",     repl |-> "instance == null"],
       [kind |-> "negation", pat |-> "options",      repl |-> "options == null"],
       [kind |-> "emptyobj", pat |-> "if",           repl |-> "if (false)"],
       [kind |-> "literal",  pat |-> "console.log(", repl |-> "console.warn("],
       [kind |-> "unused",   pat |-> "unused",       repl |-> "_"] >>

NumRules == Len(Rules)

\* a lookup pattern that accepts any identifier as the index token
LookupLenAnyIndex(tok, s, k) ==
    LET w == WordRun(s, k)
        v == WordRun(s, k + w + 1)
    IN  IF w > 0 /\ StartsAt(s, k + w, "[") /\ v > 0 /\ StartsAt(s, k + w + 1 + v, "] ||")
        THEN w + v + 5 ELSE 0

\* (\w+)\[name\] \|\|  and  (\w+)\[value\] \|\| : length of the match at k, 0 if none
LookupLen(tok, s, k) ==
    LET w   == WordRun(s, k)
        lit == "[" \o tok \o "] ||"
    IN  IF w > 0 /\ StartsAt(s, k + w, lit) THEN w + Len(lit) ELSE 0

\* the negation pattern without its trailing \b
NegationLenNoBoundary(id, s, k) ==
    IF StartsAt(s, k, "!" \o id) THEN Len(id) + 1 ELSE 0

\* !text\b and its five siblings
NegationLen(id, s, k) ==
    LET lit == "!" \o id
    IN  IF StartsAt(s, k, lit) /\ WordBoundary(s, k + Len(lit))
        THEN Len(lit) ELSE 0

\* if\s*\(\s*\{\s*\}\s*\)
EmptyObjLen(s, k) ==
    LET p1 == k + 2
        p2 == p1 + SpaceRun(s, p1)
        p3 == p2 + 1 + SpaceRun(s, p2 + 1)
        p4 == p3 + 1 + SpaceRun(s, p3 + 1)
        p5 == p4 + 1 + SpaceRun(s, p4 + 1)
    IN  IF /\ StartsAt(s, k, "if")
           /\ StartsAt(s, p2, "(")
           /\ StartsAt(s, p3, "{")
           /\ StartsAt(s, p4, "}")
           /\ StartsAt(s, p5, ")")
        THEN p5 + 1 - k ELSE 0

\* console\.log\(
LiteralLen(lit, s, k) == IF StartsAt(s, k, lit) THEN Len(lit) ELSE 0

\* the unused pattern without its leading \b
UnusedLenNoBoundary(s, k) ==
    LET w == WordRun(s, k + 6)
    IN  IF StartsAt(s, k, "unused") /\ w > 0 THEN 6 + w ELSE 0

\* \bunused(\w+)\b
UnusedLen(s, k) ==
    LET w == WordRun(s, k + 6)
    IN  IF /\ WordBoundary(s, k)
           /\ StartsAt(s, k, "unused")
           /\ w > 0
           /\ WordBoundary(s, k + 6 + w)
        THEN 6 + w ELSE 0

\* length of the match of rule r that starts at k, 0 if there is none
MatchLen(r, s, k) ==
    CASE r.kind = "lookup"   -> LookupLen(r.pat, s, k)
      [] r.kind = "negation" -> NegationLen(r.pat, s, k)
      [] r.kind = "emptyobj" -> EmptyObjLen(s, k)
      [] r.kind = "literal"  -> LiteralLen(r.pat, s, k)
      [] r.kind = "unused"   -> UnusedLen(s, k)

\* the replacement template of rule r expanded for the match s[k .. k+n-1]
Expand(r, s, k, n) ==
    CASE r.kind = "lookup" -> SubSeq(s, k, k + WordRun(s, k) - 1) \o r.repl
      [] r.kind = "unused" -> r.repl \o SubSeq(s, k + 6, k + n - 1)
      [] OTHER             -> r.repl

RECURSIVE Scan(_, _, _)
\* re.sub's scan from position k: leftmost match, replace, resume after it
Scan(r, s, k) ==
    IF k > Len(s) THEN ""
    ELSE LET n == MatchLen(r, s, k)
         IN  IF n > 0 THEN Expand(r, s, k, n) \o Scan(r, s, k + n)
                      ELSE Ch(s, k) \o Scan(r, s, k + 1)

\* a substitution that scans its own output once more
re_sub_again(r, s) == Scan(r, Scan(r, s, 1), 1)

re_sub(r, s) == Scan(r, s, 1)

RECURSIVE ApplyFrom(_, _)
\* the substitutions n, n+1, ..., NumRules applied in that order
ApplyFrom(n, s) ==
    IF n > NumRules THEN s ELSE ApplyFrom(n + 1, re_sub(Rules[n], s))

\* the text fix_file computes from the text it read
apply(s) == ApplyFrom(1, s)

(***************************************************************************)
(* Text-mode file I/O: open(filepath, 'r') reads with universal newlines,  *)
(* open(filepath, 'w') writes '\n' as the platform's line separator.       *)
(***************************************************************************)
linesep == "\n"

RECURSIVE DecodeFrom(_, _)
DecodeFrom(data, k) ==
    IF k > Len(data) THEN ""
    ELSE IF StartsAt(data, k, "\r\n") THEN "\n" \o DecodeFrom(data, k + 2)
    ELSE IF Ch(data, k) = "\r" THEN "\n" \o DecodeFrom(data, k + 1)
    ELSE Ch(data, k) \o DecodeFrom(data, k + 1)

\* f.read() of a file opened with open(filepath, 'r')
decode(data) == DecodeFrom(data, 1)

RECURSIVE EncodeFrom(_, _)
EncodeFrom(text, k) ==
    IF k > Len(text) THEN ""
    ELSE IF Ch(text, k) = "\n" THEN linesep \o EncodeFrom(text, k + 1)
    ELSE Ch(text, k) \o EncodeFrom(text, k + 1)

\* what f.write(content) puts on disk for a file opened with open(filepath, 'w')
encode(text) == EncodeFrom(text, 1)

(***************************************************************************)
(* Bounds and the inputs drawn in the initial states.                      *)
(***************************************************************************)
MaxArgs == 2

MaxFrags == 2

Paths == { "a.js", "b.js" }

\* what the file system answers for a path during the run
Modes == { "ok", "missing", "noaccess", "undecodable", "readonly", "full" }

SampleData ==
    { "ok;\r\n", "!!text" }

Files ==
    { [mode |-> m, data |-> d] : m \in Modes \ {"missing"}, d \in SampleData }
        \cup { [mode |-> "missing", data |-> ""] }

ArgLists == UNION { [1..n -> Paths] : n \in 0..MaxArgs }

Fragments ==
    { "!text", "!result", "!response", "!jsonData", "!instance", "!options",
      "!", "s", " ", "_", "unused", "Var",
      "h[name] ||", "h[value] ||", "h[key] ||",
      "if ({})", "if\n( { } )", "console.log(" }

Examples ==
    { "const v = headers[name] || defaultVal;",
      "if (!options) { return; }",
      "if ({}) { doThing(); }",
      "console.log(\"hi\");",
      "let unusedCounter = myunusedVar + _unusedX;",
      "return total;\r\n" }

RECURSIVE FragTexts(_)
\* the concatenations of at most n fragments
FragTexts(n) ==
    IF n = 0 THEN { "" }
    ELSE LET shorter == FragTexts(n - 1)
         IN  shorter \cup { t \o f : t \in shorter, f \in Fragments }

Texts == FragTexts(MaxFrags) \cup Examples

(***************************************************************************)
(* The program: the loop of __main__ around fix_file.                      *)
(***************************************************************************)
filepath == argv[i]

Log(op) == Append(trace, [op |-> op, arg |-> i])

FixedMsg(p) == "Fixed: " \o p

ErrorMsg(p, e) == "Error fixing " \o p \o ": " \o e

Start(args, disk) ==
    /\ argv = args
    /\ fs = disk
    /\ i = 1
    /\ pc = "for"
    /\ rule = 1
    /\ content = ""
    /\ original = ""
    /\ exc = ""
    /\ stdout = << >>
    /\ trace = << >>

Init == \E args \in ArgLists, disk \in [Paths -> Files] : Start(args, disk)

\* one file of arbitrary text, named twice on the command line
InitPipe ==
    \E t \in Texts :
        Start(<< "a.js", "a.js" >>,
              [p \in Paths |-> IF p = "a.js" THEN [mode |-> "ok", data |-> t]
                                             ELSE [mode |-> "missing", data |-> ""]])

\* a loop that never moves on to the next argument
NextArgStuck(n) == n

\* what the loop does once fix_file returned or its exception was handled
NextArg(n) == n + 1

\* for filepath in sys.argv[1:]: the next argument, if there is one
ForEnter ==
    /\ pc = "for"
    /\ i <= Len(argv)
    /\ pc' = "open_r"
    /\ UNCHANGED << argv, fs, i, rule, content, original, exc, stdout, trace >>

ForExit ==
    /\ pc = "for"
    /\ i > Len(argv)
    /\ pc' = "done"
    /\ UNCHANGED << argv, fs, i, rule, content, original, exc, stdout, trace >>

\* with open(filepath, 'r') as f:
OpenReadOk ==
    /\ pc = "open_r"
    /\ fs[filepath].mode \notin { "missing", "noaccess" }
    /\ pc' = "read"
    /\ trace' = Log("open_r")
    /\ UNCHANGED << argv, fs, i, rule, content, original, exc, stdout >>

OpenReadFail ==
    /\ pc = "open_r"
    /\ fs[filepath].mode \in { "missing", "noaccess" }
    /\ exc' = IF fs[filepath].mode = "missing"
              THEN "No such file or directory" ELSE "Permission denied"
    /\ pc' = "except"
    /\ trace' = Log("open_r_failed")
    /\ UNCHANGED << argv, fs, i, rule, content, original, stdout >>

\* a read that replaces what it cannot decode instead of raising
ReadFailIgnored ==
    /\ pc = "read"
    /\ fs[filepath].mode = "undecodable"
    /\ content' = decode(fs[filepath].data)
    /\ original' = content'
    /\ rule' = 1
    /\ pc' = "sub"
    /\ trace' = Log("read")
    /\ UNCHANGED << argv, fs, i, exc, stdout >>

\* content = f.read(); original = content
ReadOk ==
    /\ pc = "read"
    /\ fs[filepath].mode # "undecodable"
    /\ content' = decode(fs[filepath].data)
    /\ original' = content'
    /\ rule' = 1
    /\ pc' = "sub"
    /\ trace' = Log("read")
    /\ UNCHANGED << argv, fs, i, exc, stdout >>

ReadFail ==
    /\ pc = "read"
    /\ fs[filepath].mode = "undecodable"
    /\ exc' = "codec can't decode"
    /\ pc' = "except"
    /\ trace' = Log("read_failed")
    /\ UNCHANGED << argv, fs, i, rule, content, original, stdout >>

\* content = re.sub(pattern, replacement, content), one statement per step
Sub ==
    /\ pc = "sub"
    /\ content' = re_sub(Rules[rule], content)
    /\ rule' = rule + 1
    /\ pc' = IF rule = NumRules THEN "cmp" ELSE "sub"
    /\ UNCHANGED << argv, fs, i, original, exc, stdout, trace >>

\* if content != original: false, fix_file returns
Unchanged ==
    /\ pc = "cmp"
    /\ content = original
    /\ i' = NextArg(i)
    /\ pc' = "for"
    /\ UNCHANGED << argv, fs, rule, content, original, exc, stdout, trace >>

\* a rewrite that does not depend on the comparison
ChangedAlways ==
    /\ pc = "cmp"
    /\ pc' = "open_w"
    /\ UNCHANGED << argv, fs, i, rule, content, original, exc, stdout, trace >>

Changed ==
    /\ pc = "cmp"
    /\ content # original
    /\ pc' = "open_w"
    /\ UNCHANGED << argv, fs, i, rule, content, original, exc, stdout, trace >>

\* with open(filepath, 'w') as f: opening truncates the file
OpenWriteOk ==
    /\ pc = "open_w"
    /\ fs[filepath].mode # "readonly"
    /\ fs' = [fs EXCEPT ![filepath].data = ""]
    /\ pc' = "write"
    /\ trace' = Log("open_w")
    /\ UNCHANGED << argv, i, rule, content, original, exc, stdout >>

OpenWriteFail ==
    /\ pc = "open_w"
    /\ fs[filepath].mode = "readonly"
    /\ exc' = "Permission denied"
    /\ pc' = "except"
    /\ trace' = Log("open_w_failed")
    /\ UNCHANGED << argv, fs, i, rule, content, original, stdout >>

\* f.write(content), flushed when the with block closes the file
WriteOk ==
    /\ pc = "write"
    /\ fs[filepath].mode # "full"
    /\ fs' = [fs EXCEPT ![filepath].data = encode(content)]
    /\ pc' = "print"
    /\ trace' = Log("write")
    /\ UNCHANGED << argv, i, rule, content, original, exc, stdout >>

\* the device fills up: some proper prefix of the text reached the disk
WriteFail ==
    /\ pc = "write"
    /\ fs[filepath].mode = "full"
    /\ \E n \in 0..(Len(encode(content)) - 1) :
           fs' = [fs EXCEPT ![filepath].data = SubSeq(encode(content), 1, n)]
    /\ exc' = "No space left on device"
    /\ pc' = "except"
    /\ trace' = Log("write_failed")
    /\ UNCHANGED << argv, i, rule, content, original, stdout >>

\* print(f"Fixed: {filepath}")
PrintFixed ==
    /\ pc = "print"
    /\ stdout' = Append(stdout, FixedMsg(filepath))
    /\ trace' = Log("fixed")
    /\ i' = NextArg(i)
    /\ pc' = "for"
    /\ UNCHANGED << argv, fs, rule, content, original, exc >>

\* a handler around the whole loop: the first error ends the run
PrintErrorAborts ==
    /\ pc = "except"
    /\ stdout' = Append(stdout, ErrorMsg(filepath, exc))
    /\ trace' = Log("error")
    /\ pc' = "done"
    /\ UNCHANGED << argv, fs, i, rule, content, original, exc >>

\* except Exception as e: print(f"Error fixing {filepath}: {e}")
PrintError ==
    /\ pc = "except"
    /\ stdout' = Append(stdout, ErrorMsg(filepath, exc))
    /\ trace' = Log("error")
    /\ i' = NextArg(i)
    /\ pc' = "for"
    /\ UNCHANGED << argv, fs, rule, content, original, exc >>

Next ==
    \/ ForEnter
    \/ ForExit
    \/ OpenReadOk
    \/ OpenReadFail
    \/ ReadOk
    \/ ReadFail
    \/ Sub
    \/ Unchanged
    \/ Changed
    \/ OpenWriteOk
    \/ OpenWriteFail
    \/ WriteOk
    \/ WriteFail
    \/ PrintFixed
    \/ PrintError

\* the steps a run takes when every file operation succeeds
NextPipe ==
    \/ ForEnter
    \/ ForExit
    \/ OpenReadOk
    \/ ReadOk
    \/ Sub
    \/ Unchanged
    \/ Changed
    \/ OpenWriteOk
    \/ WriteOk
    \/ PrintFixed

Spec == Init /\ [][Next]_vars

\* a sequential program: the interpreter always takes the next step
FairSpec == Spec /\ WF_vars(Next)

PipeSpec == InitPipe /\ [][NextPipe]_vars

(***************************************************************************)
(* Vocabulary of the properties: the occurrences of an idiom in a text,    *)
(* stated position by position, and the text in which every occurrence of  *)
(* a set is replaced at once.                                              *)
(***************************************************************************)
Positions(t) == 1..Len(t)

AllWord(t, k, n) == \A j \in k..(k + n - 1) : IsWordAt(t, j)

\* the length of the identifier (maximal run of word characters) starting at k
IdentLen(t, k) ==
    CHOOSE n \in 0..Len(t) : AllWord(t, k, n) /\ ~IsWordAt(t, k + n)

IdentStart(t, k) == IsWordAt(t, k) /\ ~IsWordAt(t, k - 1)

RECURSIVE Squeeze(_)
\* t without its whitespace
Squeeze(t) ==
    IF t = "" THEN ""
    ELSE IF Ch(t, 1) \in SpaceChars THEN Squeeze(SubSeq(t, 2, Len(t)))
    ELSE Ch(t, 1) \o Squeeze(SubSeq(t, 2, Len(t)))

NegIds == << "text", "result", "response", "jsonData", "instance", "options" >>

\* <container>[tok] || with its container identifier
LookupOccs(tok, t) ==
    { [at  |-> k,
       len |-> IdentLen(t, k) + Len(tok) + 5,
       by  |-> SubSeq(t, k, k + IdentLen(t, k) - 1) \o "[name] ??"] :
      k \in { j \in Positions(t) :
                /\ IdentStart(t, j)
                /\ StartsAt(t, j + IdentLen(t, j), "[" \o tok \o "] ||") } }

BothLookupOccs(t) == LookupOccs("name", t) \cup LookupOccs("value", t)

\* !id followed by a non-word character or the end of the text
NegOccs(id, t) ==
    { [at |-> k, len |-> Len(id) + 1, by |-> id \o " == null"] :
      k \in { j \in Positions(t) :
                StartsAt(t, j, "!" \o id) /\ ~IsWordAt(t, j + Len(id) + 1) } }

AllNegOccs(t) == UNION { NegOccs(NegIds[n], t) : n \in 1..Len(NegIds) }

\* if ( { } ) with any whitespace between its tokens
EmptyObjOccs(t) ==
    UNION { { [at |-> k, len |-> n, by |-> "if (false)"] :
              n \in { m \in 6..(Len(t) - k + 1) :
                        /\ Ch(t, k + m - 1) = ")"
                        /\ Squeeze(SubSeq(t, k + 2, k + m - 1)) = "({})" } } :
            k \in { j \in Positions(t) : StartsAt(t, j, "if") } }

LogOccs(t) ==
    { [at |-> k, len |-> 12, by |-> "console.warn("] :
      k \in { j \in Positions(t) : StartsAt(t, j, "console.log(") } }

\* an identifier that begins with unused, whatever follows the prefix
UnusedPrefixOccs(t) ==
    { [at  |-> k,
       len |-> IdentLen(t, k),
       by  |-> "_" \o SubSeq(t, k + 6, k + IdentLen(t, k) - 1)] :
      k \in { j \in Positions(t) : IdentStart(t, j) /\ StartsAt(t, j, "unused") } }

\* an identifier that begins with unused and goes on for at least one character
UnusedOccs(t) == { o \in UnusedPrefixOccs(t) : o.len > 6 }

\* the occurrences the n-th rule of the catalogue is about
OccsOf(n, t) ==
    CASE n = 1       -> LookupOccs("name", t)
      [] n = 2       -> LookupOccs("value", t)
      [] n \in 3..8  -> NegOccs(NegIds[n - 2], t)
      [] n = 9       -> EmptyObjOccs(t)
      [] n = 10      -> LogOccs(t)
      [] n = 11      -> UnusedOccs(t)

RECURSIVE ReplacedFrom(_, _, _)
ReplacedFrom(t, occs, k) ==
    IF k > Len(t) THEN ""
    ELSE IF \E o \in occs : o.at = k
         THEN LET o == CHOOSE o \in occs : o.at = k
              IN  o.by \o ReplacedFrom(t, occs, k + o.len)
         ELSE Ch(t, k) \o ReplacedFrom(t, occs, k + 1)

\* t with every occurrence of occs replaced, the rest kept
Replaced(t, occs) == ReplacedFrom(t, occs, 1)

\* the events of the run that belong to the k-th argument
Ev(op, k) == \E n \in 1..Len(trace) : trace[n] = [op |-> op, arg |-> k]

(***************************************************************************)
(* Properties of the substitution pipeline, checked under PipeSpec.        *)
(***************************************************************************)

\* a '!id' of the six that is followed by a non-word character or the end of
\* the text and is itself preceded by '!'
DoubleNegated(t) ==
    \E n \in 1..Len(NegIds), k \in Positions(t) :
        /\ StartsAt(t, k, "!!" \o NegIds[n])
        /\ ~IsWordAt(t, k + Len(NegIds[n]) + 2)

\* C1 as stated: the pipeline applied to its own output changes nothing, for
\* every text: apply(apply(T)) = apply(T), and the second run on a file leaves
\* the text it read unchanged.
C1_Idempotent ==
    /\ (pc = "cmp" /\ i = 1) => apply(content) = content
    /\ (pc = "cmp" /\ i = 2) => content = original

\* C1 amended: apply(apply(T)) = apply(T) for every text T in which no '!id'
\* of the six that ends at a word boundary is immediately preceded by '!'.
C1_IdempotentWithoutDoubleNegation ==
    (pc = "cmp" /\ i = 1 /\ ~DoubleNegated(original)) => apply(content) = content

\* the first run rewrote the file, the second run read it and changed nothing
C1_Witness ==
    /\ pc = "cmp"
    /\ i = 2
    /\ stdout = << FixedMsg("a.js") >>
    /\ original = "if (options == null) { return; }"
    /\ content = original

NoOccurrence(t) == \A n \in 1..11 : OccsOf(n, t) = {}

PrintedFor(k) == Ev("fixed", k) \/ Ev("error", k)

\* C4: a text that holds no occurrence of any of the eleven patterns leaves
\* the pipeline exactly as it was read, its file is not opened for writing and
\* no message is printed for it.
C4_NoMatchIdentity ==
    /\ (pc = "cmp" /\ NoOccurrence(original)) =>
           content = original /\ ~PrintedFor(i)
    /\ pc \in { "open_w", "write", "print" } => ~NoOccurrence(original)

\* a file with CRLF line ends and no idiom went through all eleven rules
C4_Witness ==
    /\ pc = "cmp"
    /\ i = 1
    /\ fs["a.js"].data = "return total;\r\n"
    /\ original = "return total;\n"
    /\ content = original
    /\ NoOccurrence(original)

\* the text the negation rules start from: the lookups already normalised
AfterLookups(t) == Replaced(t, BothLookupOccs(t))

\* C6 as stated: after the six negation rules every '!id' that was followed
\* by a non-word character or the end of the text reads 'id == null', and
\* nothing else changed ('!id' before a word character, other identifiers).
C6_EveryNegationRewritten ==
    (pc = "sub" /\ rule = 9) =>
        content = Replaced(AfterLookups(original), AllNegOccs(AfterLookups(original)))

\* a '!id' directly followed by a rewritable '!id2' whose rule runs earlier
ChainedNegation(t) ==
    \E a \in 1..Len(NegIds), b \in 1..Len(NegIds), k \in Positions(t) :
        /\ b < a
        /\ StartsAt(t, k, "!" \o NegIds[a])
        /\ \E o \in NegOccs(NegIds[b], t) : o.at = k + Len(NegIds[a]) + 1

\* C6 amended: in a text where no '!id' is directly followed by a rewritable
\* '!id2' of an identifier earlier in the list, every '!id' that is followed
\* by a non-word character or the end of the text becomes 'id == null', and
\* nothing else changes ('!id' before a word character, other identifiers).
C6_NegationsRewritten ==
    (pc = "sub" /\ rule = 9 /\ ~ChainedNegation(AfterLookups(original))) =>
        content = Replaced(AfterLookups(original), AllNegOccs(AfterLookups(original)))

C6_Witness ==
    /\ pc = "sub"
    /\ rule = 9
    /\ original = "if (!options) { return; }"
    /\ content = "if (options == null) { return; }"

\* C7 as stated: the unused rule rewrites every identifier that begins with
\* 'unused' to '_' plus what follows the prefix, and changes nothing else.
C7_EveryUnusedPrefixRewritten ==
    [][(pc = "sub" /\ rule = 11) =>
          content' = Replaced(content, UnusedPrefixOccs(content))]_vars

\* C7 amended: the unused rule rewrites every identifier that begins with
\* 'unused' followed by at least one more word character to '_' plus what
\* follows the prefix, and changes nothing else: the bare identifier 'unused'
\* and identifiers with 'unused' inside them stay as they are.
C7_UnusedPrefixRewritten ==
    /\ [][(pc = "sub" /\ rule = 11) =>
             content' = Replaced(content, UnusedOccs(content))]_vars
    /\ [](pc = "cmp" /\ original = "unused" => content = "unused")

C7_Witness ==
    /\ pc = "cmp"
    /\ original = "let unusedCounter = myunusedVar + _unusedX;"
    /\ content = "let _Counter = myunusedVar + _unusedX;"

\* C8: when the two lookup rules have run, every '<container>[name] ||' and
\* every '<container>[value] ||' reads '<container>[name] ??' with its
\* container kept, lookups with another index token are untouched, and the
\* text the pipeline ends with holds neither idiom.
C8_LookupsNormalised ==
    /\ (pc = "sub" /\ rule = 3) => content = AfterLookups(original)
    /\ pc = "cmp" => BothLookupOccs(content) = {}

C8_Witness ==
    /\ pc = "cmp"
    /\ original = "h[value] ||h[key] ||"
    /\ content = "h[name] ??h[key] ||"

\* C9: each step of the pipeline replaces, once and at the same time, the
\* occurrences of the next pattern of the catalogue in the text the previous
\* step left, the eleven patterns are taken in source order, and the text is
\* compared after the eleventh; so '!!text' ends as '!text == null'.
C9_FixedOrderSinglePass ==
    /\ [][pc = "sub" =>
             /\ content' = Replaced(content, OccsOf(rule, content))
             /\ rule' = rule + 1
             /\ (pc' = "cmp") = (rule = 11)]_vars
    /\ [](pc = "cmp" /\ original = "!!text" => content = "!text == null")
    /\ [](pc = "cmp" /\ original = "unused!text" => content = "_text == null")

C9_Witness ==
    /\ pc = "cmp"
    /\ original = "!!text"
    /\ content = "!text == null"

(***************************************************************************)
(* Properties of the run over the files, checked under Spec and FairSpec.  *)
(***************************************************************************)
Args == 1..Len(argv)

IsPrint(e) == e.op \in { "fixed", "error" }

\* the print calls of the run, in the order they were made
Prints == SelectSeq(trace, IsPrint)

Count(op, k) ==
    Cardinality({ n \in 1..Len(trace) : trace[n] = [op |-> op, arg |-> k] })

ReadFailed(k) == Ev("open_r_failed", k) \/ Ev("read_failed", k)

WriteFailed(k) == Ev("open_w_failed", k) \/ Ev("write_failed", k)

OpenedForWriting(k) == Ev("open_w", k) \/ Ev("open_w_failed", k)

\* C2: a file that was read is opened for writing exactly when the text after
\* the eleven rules differs from the text read; a completed write leaves the
\* file holding exactly that final text; 'Fixed: <path>' is printed exactly
\* when the write completed; an unchanged file goes straight to the next
\* argument with no write and no message.
C2_WriteDecision ==
    /\ [](pc \in { "open_w", "write", "print" } =>
             content # original /\ content = apply(original))
    /\ [](pc = "print" => fs[filepath].data = content)
    /\ [][pc = "cmp" =>
             IF content = original
             THEN fs' = fs /\ stdout' = stdout /\ trace' = trace /\ pc' = "for"
             ELSE pc' = "open_w"]_vars
    /\ [](\A k \in Args : OpenedForWriting(k) => Ev("read", k))
    /\ [](\A k \in Args : k < i => (Ev("fixed", k) <=> Ev("write", k)))
    /\ [](/\ Len(stdout) = Len(Prints)
          /\ \A n \in 1..Len(Prints) :
                 Prints[n].op = "fixed" => stdout[n] = "Fixed: " \o argv[Prints[n].arg])

\* the first file was rewritten and reported, the second read and left alone
C2_Witness ==
    /\ pc = "done"
    /\ argv = << "a.js", "b.js" >>
    /\ fs["a.js"].data = "!text == null"
    /\ fs["b.js"] = [mode |-> "ok", data |-> "ok;\r\n"]
    /\ Ev("write", 1)
    /\ Ev("read", 2)
    /\ stdout = << "Fixed: a.js" >>

ReadFailModes == { "missing", "noaccess", "undecodable" }

\* C3: the run always reaches the end of the argument list; by then every
\* argument was attempted, each argument whose file failed has exactly one
\* error line naming its path and no other argument has one, and the files
\* after a failing one were read and, when written, reported.
C3_ErrorIsolation ==
    /\ <>(pc = "done")
    /\ [](pc = "done" =>
             /\ i = Len(argv) + 1
             /\ \A k \in Args :
                    /\ Ev("open_r", k) \/ Ev("open_r_failed", k)
                    /\ Count("error", k) = IF ReadFailed(k) \/ WriteFailed(k) THEN 1 ELSE 0
                    /\ fs[argv[k]].mode \in ReadFailModes => Count("error", k) = 1
                    /\ fs[argv[k]].mode = "ok" => Count("error", k) = 0 /\ Ev("read", k)
                    /\ Ev("write", k) => Ev("fixed", k))
    /\ [](\A n \in 1..Len(Prints) :
             Prints[n].op = "error" =>
                 StartsAt(stdout[n], 1, "Error fixing " \o argv[Prints[n].arg] \o ": "))

\* the first argument names a missing file, the second file is still fixed
C3_Witness ==
    /\ pc = "done"
    /\ argv = << "b.js", "a.js" >>
    /\ fs["b.js"].mode = "missing"
    /\ stdout = << "Error fixing b.js: No such file or directory", "Fixed: a.js" >>

\* the orders in which the operations on one file can follow each other
FileRuns ==
    { << "open_r", "read", "open_w", "write", "fixed" >>,
      << "open_r", "read", "open_w", "write_failed", "error" >>,
      << "open_r", "read", "open_w_failed", "error" >>,
      << "open_r", "read_failed", "error" >>,
      << "open_r_failed", "error" >> }

IsPrefix(a, b) == Len(a) <= Len(b) /\ SubSeq(b, 1, Len(a)) = a

OfArg(k) ==
    LET Mine(e) == e.arg = k
    IN  SelectSeq(trace, Mine)

OpsOf(k) == [n \in 1..Len(OfArg(k)) |-> OfArg(k)[n].op]

\* C5: the operations of the run come file by file in argument order: nothing
\* is done for argument k+1 before everything for argument k is over, the
\* operations on one file follow each other as open, read, open for writing,
\* write, print and are over before the loop moves on, each argument gets at
\* most one line and the lines are in
\* argument order.
C5_SequentialInOrder ==
    /\ \A n \in 1..(Len(trace) - 1) : trace[n].arg <= trace[n + 1].arg
    /\ \A n \in 1..Len(trace) : trace[n].arg \in Args /\ trace[n].arg <= i
    /\ \A k \in Args :
           /\ \E run \in FileRuns : IsPrefix(OpsOf(k), run)
           /\ k < i => OpsOf(k) \in FileRuns \cup { << "open_r", "read" >> }
           /\ Count("fixed", k) + Count("error", k) <= 1
    /\ Len(stdout) = Len(Prints)
    /\ \A n \in 1..(Len(Prints) - 1) : Prints[n].arg < Prints[n + 1].arg
    /\ \A n \in 1..Len(Prints) :
           stdout[n] \in { FixedMsg(argv[Prints[n].arg]),
                           ErrorMsg(argv[Prints[n].arg], "No such file or directory"),
                           ErrorMsg(argv[Prints[n].arg], "Permission denied"),
                           ErrorMsg(argv[Prints[n].arg], "codec can't decode"),
                           ErrorMsg(argv[Prints[n].arg], "No space left on device") }

\* the same file named twice: two rounds of operations, two lines in order
C5_Witness ==
    /\ pc = "done"
    /\ argv = << "a.js", "a.js" >>
    /\ OpsOf(1) = << "open_r", "read", "open_w", "write", "fixed" >>
    /\ OpsOf(2) = << "open_r", "read", "open_w", "write", "fixed" >>
    /\ Len(stdout) = 2

\* C10: a file whose open or read failed is never opened for writing and
\* keeps its contents through the run; no argument gets both a 'Fixed' and an
\* 'Error fixing' line; 'Fixed' is printed only after the write completed.
C10_FailedReadLeavesFile ==
    /\ [](\A k \in Args :
             /\ ReadFailed(k) => ~OpenedForWriting(k) /\ ~Ev("write", k)
             /\ ~(Ev("fixed", k) /\ Ev("error", k))
             /\ Ev("fixed", k) => Ev("write", k) /\ ~WriteFailed(k))
    /\ [][\A p \in Paths : fs[p].mode \in ReadFailModes => fs'[p] = fs[p]]_vars

C10_Witness ==
    /\ pc = "done"
    /\ argv = << "a.js", "b.js" >>
    /\ fs["a.js"] = [mode |-> "undecodable", data |-> "!!text"]
    /\ Ev("read_failed", 1)
    /\ Ev("error", 1)
    /\ Ev("fixed", 2)

====
